---- MODULE Spec2Model ----
(***************************************************************************)
(* Model of src/src/tuntap.rs: the TunTap facade over the /dev/net/tun     *)
(* character device and its control socket.  The kernel (open, socket,     *)
(* ioctl, read, write, close) is the environment: every system call's      *)
(* outcome is drawn from a small set.  A panic unwinds the frames of the   *)
(* panicking function, dropping the locals that own a descriptor.          *)
(***************************************************************************)
EXTENDS Integers, Sequences, FiniteSets, TLC

(* ---------------- bounds of the model ---------------- *)
MaxNameLen == 17
MaxData == 3
MaxWriteCalls == 2
MaxIndex == 2

(* ---------------- constants of the program ---------------- *)
MTU_SIZE == 1500
IFNAMSIZ == 16
IFF_UP == 1
IFF_RUNNING == 64
IFF_TUN == 1
IFF_TAP == 2
PREFIXLEN == 8

TunTapType == {"Tun", "Tap"}

(* ---------------- bit operations on c_short / u16 values ---------------- *)
RECURSIVE BitAnd(_, _)
BitAnd(a, b) ==
    IF a = 0 \/ b = 0 THEN 0
    ELSE (a % 2) * (b % 2) + 2 * BitAnd(a \div 2, b \div 2)

RECURSIVE BitOr(_, _)
BitOr(a, b) ==
    IF a = 0 THEN b
    ELSE IF b = 0 THEN a
    ELSE (IF a % 2 = 1 \/ b % 2 = 1 THEN 1 ELSE 0) + 2 * BitOr(a \div 2, b \div 2)

Shl16(a, n) == (a * (2 ^ n)) % 65536

(* ---------------- names ---------------- *)
\* a name of n distinct bytes 'a', 'b', ... (no interior NUL: CString)
NameOf(n) == [i \in 1..n |-> 96 + i]
Names == {NameOf(n) : n \in 0..MaxNameLen}
\* the empty name, the longest name that fits, the shortest that does not
FewNames == {NameOf(0), NameOf(IFNAMSIZ - 1), NameOf(IFNAMSIZ)}

Zeros(n) == [i \in 1..n |-> 0]

\* CString::as_bytes_with_nul
as_bytes_with_nul(name) == Append(name, 0)

\* slice::clone_from_slice of the time: copies min(len) elements
clone_from_slice(buffer, src) ==
    [i \in 1..Len(buffer) |-> IF i <= Len(src) THEN src[i] ELSE buffer[i]]

\* what an ioctl returns (-1 with errno, or 0) and what socket returns
\* (-1, or the new descriptor)
IoctlAnswers == {-1, 0}
SocketAnswers == {-1, 3}

\* the name the kernel chooses when it rewrites the request ("tap0")
KernelName == clone_from_slice(Zeros(IFNAMSIZ), <<116, 97, 112, 48>>)

(* ---------------- system call records ---------------- *)
\* ret is what the call returned
Sys(call, fd, name, flags, index, words, ret) ==
    [call |-> call, fd |-> fd, name |-> name, flags |-> flags,
     index |-> index, words |-> words, ret |-> ret]

Calls(trace) == [i \in 1..Len(trace) |-> trace[i].call]
Count(trace, c) == Cardinality({i \in 1..Len(trace) : trace[i].call = c})
CountOn(trace, c, fd) ==
    Cardinality({i \in 1..Len(trace) : trace[i].call = c /\ trace[i].fd = fd})
Issued(trace, c) == \E i \in 1..Len(trace) : trace[i].call = c

(* ---------------- construction ---------------- *)
\* the attach flags exchanged between the two kinds
AttachFlag_swapped(typ) == IF typ = "Tun" THEN IFF_TAP ELSE IFF_TUN

AttachFlag(typ) == IF typ = "Tun" THEN IFF_TUN ELSE IFF_TAP

\* create_if measuring the name without its terminator
create_if_no_nul(typ, name, openOk, attachRes, rewrite) ==
    LET name_slice == as_bytes_with_nul(name)
        ifr_name == clone_from_slice(Zeros(IFNAMSIZ), name_slice)
        t_open == <<Sys("open", "dev", <<>>, 0, 0, <<>>, IF openOk THEN 0 ELSE -1)>>
        t_attach == Append(t_open,
                       Sys("TUNSETIFF", "dev", ifr_name, AttachFlag(typ), 0, <<>>, attachRes))
    IN  IF Len(name) > IFNAMSIZ
        THEN [ok |-> FALSE, error |-> "NameTooLong", trace |-> <<>>,
              file |-> "none", if_name |-> Zeros(IFNAMSIZ)]
        ELSE IF ~openOk
        THEN [ok |-> FALSE, error |-> "DeviceOpenFailed", trace |-> t_open,
              file |-> "none", if_name |-> Zeros(IFNAMSIZ)]
        ELSE IF attachRes < 0
        THEN [ok |-> FALSE, error |-> "AttachFailed",
              trace |-> Append(t_attach, Sys("close", "dev", <<>>, 0, 0, <<>>, 0)),
              file |-> "closed", if_name |-> Zeros(IFNAMSIZ)]
        ELSE [ok |-> TRUE, error |-> "none", trace |-> t_attach,
              file |-> "open",
              if_name |-> IF rewrite THEN KernelName ELSE ifr_name]

\* create_if returning the buffer it built, not the request the kernel answered
create_if_request_name(typ, name, openOk, attachRes, rewrite) ==
    LET name_slice == as_bytes_with_nul(name)
        ifr_name == clone_from_slice(Zeros(IFNAMSIZ), name_slice)
        t_open == <<Sys("open", "dev", <<>>, 0, 0, <<>>, IF openOk THEN 0 ELSE -1)>>
        t_attach == Append(t_open,
                       Sys("TUNSETIFF", "dev", ifr_name, AttachFlag(typ), 0, <<>>, attachRes))
    IN  IF Len(name_slice) > IFNAMSIZ
        THEN [ok |-> FALSE, error |-> "NameTooLong", trace |-> <<>>,
              file |-> "none", if_name |-> Zeros(IFNAMSIZ)]
        ELSE IF ~openOk
        THEN [ok |-> FALSE, error |-> "DeviceOpenFailed", trace |-> t_open,
              file |-> "none", if_name |-> Zeros(IFNAMSIZ)]
        ELSE IF attachRes < 0
        THEN [ok |-> FALSE, error |-> "AttachFailed",
              trace |-> Append(t_attach, Sys("close", "dev", <<>>, 0, 0, <<>>, 0)),
              file |-> "closed", if_name |-> Zeros(IFNAMSIZ)]
        ELSE [ok |-> TRUE, error |-> "none", trace |-> t_attach,
              file |-> "open", if_name |-> ifr_name]

\* create_if: the outcome of opening the device and attaching.
\* openOk (the Result of the open), attachRes (what ioctl returned) and
\* rewrite (whether the kernel put its own name in the request) are the
\* kernel's answers.
create_if(typ, name, openOk, attachRes, rewrite) ==
    LET name_slice == as_bytes_with_nul(name)
        req == [ifr_name |-> clone_from_slice(Zeros(IFNAMSIZ), name_slice),
                ifr_flags |-> AttachFlag(typ)]
        t_open == <<Sys("open", "dev", <<>>, 0, 0, <<>>, IF openOk THEN 0 ELSE -1)>>
        t_attach == Append(t_open,
                       Sys("TUNSETIFF", "dev", req.ifr_name, req.ifr_flags, 0, <<>>, attachRes))
    IN  IF Len(name_slice) > IFNAMSIZ
        THEN [ok |-> FALSE, error |-> "NameTooLong", trace |-> <<>>,
              file |-> "none", if_name |-> Zeros(IFNAMSIZ)]
        ELSE IF ~openOk
        THEN [ok |-> FALSE, error |-> "DeviceOpenFailed", trace |-> t_open,
              file |-> "none", if_name |-> Zeros(IFNAMSIZ)]
        ELSE IF attachRes < 0
        THEN \* panic: unwinding drops the local `file`
             [ok |-> FALSE, error |-> "AttachFailed",
              trace |-> Append(t_attach, Sys("close", "dev", <<>>, 0, 0, <<>>, 0)),
              file |-> "closed", if_name |-> Zeros(IFNAMSIZ)]
        ELSE [ok |-> TRUE, error |-> "none", trace |-> t_attach,
              file |-> "open",
              if_name |-> IF rewrite THEN KernelName ELSE req.ifr_name]

\* create_socket panicking on a failed index lookup without closing the socket
create_socket_leak(name, sockRes, indexRes, idx) ==
    LET t_sock == <<Sys("socket", "sock", <<>>, 0, 0, <<>>, sockRes)>>
        t_index == Append(t_sock, Sys("SIOCGIFINDEX", "sock", name, 0, -1, <<>>, indexRes))
    IN  IF sockRes < 0
        THEN [ok |-> FALSE, error |-> "SocketCreateFailed", trace |-> t_sock,
              sock |-> "none", if_index |-> -1]
        ELSE IF indexRes < 0
        THEN [ok |-> FALSE, error |-> "IndexResolveFailed", trace |-> t_index,
              sock |-> "open", if_index |-> -1]
        ELSE [ok |-> TRUE, error |-> "none", trace |-> t_index,
              sock |-> "open", if_index |-> idx]

\* create_socket: the outcome of opening the control socket and resolving
\* the index.  sockRes, indexRes, idx are the kernel's answers.
create_socket(name, sockRes, indexRes, idx) ==
    LET t_sock == <<Sys("socket", "sock", <<>>, 0, 0, <<>>, sockRes)>>
        t_index == Append(t_sock, Sys("SIOCGIFINDEX", "sock", name, 0, -1, <<>>, indexRes))
    IN  IF sockRes < 0
        THEN [ok |-> FALSE, error |-> "SocketCreateFailed", trace |-> t_sock,
              sock |-> "none", if_index |-> -1]
        ELSE IF indexRes < 0
        THEN [ok |-> FALSE, error |-> "IndexResolveFailed",
              trace |-> Append(t_index, Sys("close", "sock", <<>>, 0, 0, <<>>, 0)),
              sock |-> "closed", if_index |-> -1]
        ELSE [ok |-> TRUE, error |-> "none", trace |-> t_index,
              sock |-> "open", if_index |-> idx]

\* create_named: create_if, then create_socket with the name create_if returned.
\* A panic of create_socket unwinds create_named, dropping its local `file`.
create_named(typ, name, openOk, attachRes, rewrite, sockRes, indexRes, idx) ==
    LET f == create_if(typ, name, openOk, attachRes, rewrite)
        s == create_socket(f.if_name, sockRes, indexRes, idx)
    IN  IF ~f.ok
        THEN [ok |-> FALSE, error |-> f.error, trace |-> f.trace,
              file |-> f.file, sock |-> "none",
              if_name |-> f.if_name, if_index |-> -1]
        ELSE IF ~s.ok
        THEN [ok |-> FALSE, error |-> s.error,
              trace |-> Append(f.trace \o s.trace,
                               Sys("close", "dev", <<>>, 0, 0, <<>>, 0)),
              file |-> "closed", sock |-> s.sock,
              if_name |-> f.if_name, if_index |-> -1]
        ELSE [ok |-> TRUE, error |-> "none", trace |-> f.trace \o s.trace,
              file |-> f.file, sock |-> s.sock,
              if_name |-> f.if_name, if_index |-> s.if_index]

\* get_name: the bytes before the first NUL of the stored buffer
position_elem(buf, e) ==
    IF \E i \in 1..Len(buf) : buf[i] = e
    THEN CHOOSE i \in 1..Len(buf) : buf[i] = e /\ \A j \in 1..(i - 1) : buf[j] # e
    ELSE 0

\* get_name keeping the byte at the NUL position
get_name_inclusive(buf) ==
    LET nul_pos == position_elem(buf, 0)
    IN  IF nul_pos = 0
        THEN [ok |-> FALSE, name |-> <<>>]
        ELSE [ok |-> TRUE, name |-> SubSeq(buf, 1, nul_pos)]

get_name(buf) ==
    LET nul_pos == position_elem(buf, 0)
    IN  IF nul_pos = 0
        THEN [ok |-> FALSE, name |-> <<>>]
        ELSE [ok |-> TRUE, name |-> SubSeq(buf, 1, nul_pos - 1)]

(* ---------------- up ---------------- *)
\* up asking for the flags a second time when the first ioctl failed
up_retry(name, kfl, getRes, setRes) ==
    LET get == Sys("SIOCGIFFLAGS", "sock", name, 0, 0, <<>>, getRes)
        new_flags == BitOr(kfl, BitOr(IFF_UP, IFF_RUNNING))
        t_set == <<get, Sys("SIOCSIFFLAGS", "sock", name, new_flags, 0, <<>>, setRes)>>
    IN  IF getRes < 0
        THEN [ok |-> FALSE, error |-> "FlagsQueryFailed", trace |-> <<get, get>>,
              flagsRead |-> -1, kflags |-> kfl]
        ELSE IF BitAnd(BitAnd(kfl, IFF_UP), IFF_RUNNING) # 0
        THEN [ok |-> TRUE, error |-> "none", trace |-> <<get>>,
              flagsRead |-> kfl, kflags |-> kfl]
        ELSE IF setRes < 0
        THEN [ok |-> FALSE, error |-> "FlagsSetFailed", trace |-> t_set,
              flagsRead |-> kfl, kflags |-> kfl]
        ELSE [ok |-> TRUE, error |-> "none", trace |-> t_set,
              flagsRead |-> kfl, kflags |-> new_flags]

\* up writing the two bits alone, not the flags it read with the bits added
up_overwriting(name, kfl, getRes, setRes) ==
    LET req == [ifr_name |-> name, ifr_flags |-> 0]
        t_get == <<Sys("SIOCGIFFLAGS", "sock", req.ifr_name, req.ifr_flags, 0, <<>>, getRes)>>
        ifr_flags == kfl
        new_flags == BitOr(IFF_UP, IFF_RUNNING)
        t_set == Append(t_get, Sys("SIOCSIFFLAGS", "sock", req.ifr_name, new_flags, 0, <<>>, setRes))
    IN  IF getRes < 0
        THEN [ok |-> FALSE, error |-> "FlagsQueryFailed", trace |-> t_get,
              flagsRead |-> -1, kflags |-> kfl]
        ELSE IF BitAnd(BitAnd(ifr_flags, IFF_UP), IFF_RUNNING) # 0
        THEN [ok |-> TRUE, error |-> "none", trace |-> t_get,
              flagsRead |-> ifr_flags, kflags |-> kfl]
        ELSE IF setRes < 0
        THEN [ok |-> FALSE, error |-> "FlagsSetFailed", trace |-> t_set,
              flagsRead |-> ifr_flags, kflags |-> kfl]
        ELSE [ok |-> TRUE, error |-> "none", trace |-> t_set,
              flagsRead |-> ifr_flags, kflags |-> new_flags]

\* up: getRes, setRes are what the two ioctls return; kfl the kernel's
\* interface flags, which SIOCGIFFLAGS writes into the request
up(name, kfl, getRes, setRes) ==
    LET req == [ifr_name |-> name, ifr_flags |-> 0]
        t_get == <<Sys("SIOCGIFFLAGS", "sock", req.ifr_name, req.ifr_flags, 0, <<>>, getRes)>>
        ifr_flags == kfl
        new_flags == BitOr(ifr_flags, BitOr(IFF_UP, IFF_RUNNING))
        t_set == Append(t_get, Sys("SIOCSIFFLAGS", "sock", req.ifr_name, new_flags, 0, <<>>, setRes))
    IN  IF getRes < 0
        THEN [ok |-> FALSE, error |-> "FlagsQueryFailed", trace |-> t_get,
              flagsRead |-> -1, kflags |-> kfl]
        ELSE IF BitAnd(BitAnd(ifr_flags, IFF_UP), IFF_RUNNING) # 0
        THEN [ok |-> TRUE, error |-> "none", trace |-> t_get,
              flagsRead |-> ifr_flags, kflags |-> kfl]
        ELSE IF setRes < 0
        THEN [ok |-> FALSE, error |-> "FlagsSetFailed", trace |-> t_set,
              flagsRead |-> ifr_flags, kflags |-> kfl]
        ELSE [ok |-> TRUE, error |-> "none", trace |-> t_set,
              flagsRead |-> ifr_flags, kflags |-> new_flags]

(* ---------------- add_address ---------------- *)
\* the words packed with the first byte of each pair in the high half
s6_addr_be(ip) ==
    [k \in 1..8 |-> BitOr(Shl16(ip[2 * k - 1], 8), ip[2 * k])]

\* the eight u16 words of in6_addr built from the sixteen bytes (0-based ip[k])
s6_addr(ip) ==
    [k \in 1..8 |-> BitOr(Shl16(ip[2 * k], 8), ip[2 * k - 1])]

\* the two bytes a u16 occupies in memory on the host
WordBytes(word, le) ==
    IF le THEN <<word % 256, word \div 256>> ELSE <<word \div 256, word % 256>>

RECURSIVE AddrBytes(_, _)
AddrBytes(words, le) ==
    IF words = <<>> THEN <<>>
    ELSE WordBytes(Head(words), le) \o AddrBytes(Tail(words), le)

NoAddr == [words |-> <<>>, prefixlen |-> 0, ifindex |-> -1]

\* add_address taking every slice of at least 16 bytes as an IPv6 address
add_address_long(name, index, ip, kfl, getRes, setRes, addrRes) ==
    LET u == up(name, kfl, getRes, setRes)
        t_addr == Append(u.trace,
                     Sys("SIOCSIFADDR", "sock", <<>>, PREFIXLEN, index, s6_addr(ip), addrRes))
        base == [ok |-> FALSE, upOk |-> u.ok, error |-> u.error, trace |-> u.trace,
                 flagsRead |-> u.flagsRead, kflags |-> u.kflags, addr |-> NoAddr]
    IN  IF ~u.ok THEN base
        ELSE IF Len(ip) = 4
        THEN [base EXCEPT !.error = "NotImplemented"]
        ELSE IF Len(ip) >= 16
        THEN IF addrRes < 0
             THEN [base EXCEPT !.error = "AddressAssignFailed", !.trace = t_addr]
             ELSE [base EXCEPT !.ok = TRUE, !.error = "none", !.trace = t_addr,
                               !.addr = [words |-> s6_addr(ip),
                                         prefixlen |-> PREFIXLEN,
                                         ifindex |-> index]]
        ELSE [base EXCEPT !.error = "InvalidAddressLength"]

\* add_address going on to the address although the bring-up step failed
add_address_ignoring_up(name, index, ip, kfl, getRes, setRes, addrRes) ==
    LET u == up(name, kfl, getRes, setRes)
        t_addr == Append(u.trace,
                     Sys("SIOCSIFADDR", "sock", <<>>, PREFIXLEN, index, s6_addr(ip), addrRes))
        base == [ok |-> FALSE, upOk |-> u.ok, error |-> u.error, trace |-> u.trace,
                 flagsRead |-> u.flagsRead, kflags |-> u.kflags, addr |-> NoAddr]
    IN  IF Len(ip) = 4
        THEN [base EXCEPT !.error = "NotImplemented"]
        ELSE IF Len(ip) = 16
        THEN IF addrRes < 0
             THEN [base EXCEPT !.error = "AddressAssignFailed", !.trace = t_addr]
             ELSE [base EXCEPT !.ok = TRUE, !.error = "none", !.trace = t_addr,
                               !.addr = [words |-> s6_addr(ip),
                                         prefixlen |-> PREFIXLEN,
                                         ifindex |-> index]]
        ELSE [base EXCEPT !.error = "InvalidAddressLength"]

\* add_address sending the placeholder index of a lookup request, not the stored one
add_address_placeholder_index(name, index, ip, kfl, getRes, setRes, addrRes) ==
    LET u == up(name, kfl, getRes, setRes)
        req == [ifr6_addr |-> s6_addr(ip), ifr6_prefixlen |-> PREFIXLEN,
                ifr6_ifindex |-> -1]
        t_addr == Append(u.trace,
                     Sys("SIOCSIFADDR", "sock", <<>>, req.ifr6_prefixlen,
                         req.ifr6_ifindex, req.ifr6_addr, addrRes))
        base == [ok |-> FALSE, upOk |-> u.ok, error |-> u.error, trace |-> u.trace,
                 flagsRead |-> u.flagsRead, kflags |-> u.kflags, addr |-> NoAddr]
    IN  IF ~u.ok THEN base
        ELSE IF Len(ip) = 4
        THEN [base EXCEPT !.error = "NotImplemented"]
        ELSE IF Len(ip) = 16
        THEN IF addrRes < 0
             THEN [base EXCEPT !.error = "AddressAssignFailed", !.trace = t_addr]
             ELSE [base EXCEPT !.ok = TRUE, !.error = "none", !.trace = t_addr,
                               !.addr = [words |-> req.ifr6_addr,
                                         prefixlen |-> req.ifr6_prefixlen,
                                         ifindex |-> req.ifr6_ifindex]]
        ELSE [base EXCEPT !.error = "InvalidAddressLength"]

\* add_address looking at the length before it touches the interface
add_address_validating_first(name, index, ip, kfl, getRes, setRes, addrRes) ==
    LET u == up(name, kfl, getRes, setRes)
        req == [ifr6_addr |-> s6_addr(ip), ifr6_prefixlen |-> PREFIXLEN,
                ifr6_ifindex |-> index]
        t_addr == Append(u.trace,
                     Sys("SIOCSIFADDR", "sock", <<>>, req.ifr6_prefixlen,
                         req.ifr6_ifindex, req.ifr6_addr, addrRes))
        untouched == [ok |-> FALSE, upOk |-> FALSE, error |-> "none", trace |-> <<>>,
                      flagsRead |-> -1, kflags |-> kfl, addr |-> NoAddr]
        base == [ok |-> FALSE, upOk |-> u.ok, error |-> u.error, trace |-> u.trace,
                 flagsRead |-> u.flagsRead, kflags |-> u.kflags, addr |-> NoAddr]
    IN  IF Len(ip) = 4
        THEN [untouched EXCEPT !.error = "NotImplemented"]
        ELSE IF Len(ip) # 16
        THEN [untouched EXCEPT !.error = "InvalidAddressLength"]
        ELSE IF ~u.ok THEN base
        ELSE IF addrRes < 0
        THEN [base EXCEPT !.error = "AddressAssignFailed", !.trace = t_addr]
        ELSE [base EXCEPT !.ok = TRUE, !.error = "none", !.trace = t_addr,
                          !.addr = [words |-> req.ifr6_addr,
                                    prefixlen |-> req.ifr6_prefixlen,
                                    ifindex |-> req.ifr6_ifindex]]

add_address(name, index, ip, kfl, getRes, setRes, addrRes) ==
    LET u == up(name, kfl, getRes, setRes)
        req == [ifr6_addr |-> s6_addr(ip), ifr6_prefixlen |-> PREFIXLEN,
                ifr6_ifindex |-> index]
        t_addr == Append(u.trace,
                     Sys("SIOCSIFADDR", "sock", <<>>, req.ifr6_prefixlen,
                         req.ifr6_ifindex, req.ifr6_addr, addrRes))
        base == [ok |-> FALSE, upOk |-> u.ok, error |-> u.error, trace |-> u.trace,
                 flagsRead |-> u.flagsRead, kflags |-> u.kflags, addr |-> NoAddr]
    IN  IF ~u.ok THEN base
        ELSE IF Len(ip) = 4
        THEN [base EXCEPT !.error = "NotImplemented"]
        ELSE IF Len(ip) = 16
        THEN IF addrRes < 0
             THEN [base EXCEPT !.error = "AddressAssignFailed", !.trace = t_addr]
             ELSE [base EXCEPT !.ok = TRUE, !.error = "none", !.trace = t_addr,
                               !.addr = [words |-> req.ifr6_addr,
                                         prefixlen |-> req.ifr6_prefixlen,
                                         ifindex |-> req.ifr6_ifindex]]
        ELSE [base EXCEPT !.error = "InvalidAddressLength"]

(* ---------------- packet I/O ---------------- *)
\* frames the device may hand over (lengths), and the buffers callers pass
FrameLens == {0, 14, MTU_SIZE + 1}
Capacities == {0, MTU_SIZE - 1, MTU_SIZE, MTU_SIZE + 1}
Min(a, b) == IF a < b THEN a ELSE b

\* what read(2) on the device may answer: -1, or a frame of some length, of
\* which the kernel copies min(frame, capacity) bytes and returns that count
ReadAnswers == FrameLens \cup {-1}

\* read without the assertion on the buffer's length
read_unchecked(cap, answer) ==
    LET t_read == <<Sys("read", "dev", <<>>, 0, cap, <<>>, answer)>>
        len == Min(answer, cap)
    IN  IF answer < 0
        THEN [result |-> "err", error |-> "IoError", trace |-> t_read,
              filled |-> 0, off |-> 0, len |-> 0]
        ELSE [result |-> "ok", error |-> "none", trace |-> t_read,
              filled |-> len, off |-> 0, len |-> len]

\* read returning the whole buffer instead of the filled prefix
read_whole_buffer(cap, answer) ==
    LET t_read == <<Sys("read", "dev", <<>>, 0, cap, <<>>, answer)>>
        len == Min(answer, cap)
    IN  IF ~(cap >= MTU_SIZE)
        THEN [result |-> "panic", error |-> "AssertFailed", trace |-> <<>>,
              filled |-> 0, off |-> 0, len |-> 0]
        ELSE IF answer < 0
        THEN [result |-> "err", error |-> "IoError", trace |-> t_read,
              filled |-> 0, off |-> 0, len |-> 0]
        ELSE [result |-> "ok", error |-> "none", trace |-> t_read,
              filled |-> len, off |-> 0, len |-> cap]

\* read: answer is the kernel's answer
read(cap, answer) ==
    LET t_read == <<Sys("read", "dev", <<>>, 0, cap, <<>>, answer)>>
        len == Min(answer, cap)
    IN  IF ~(cap >= MTU_SIZE)
        THEN [result |-> "panic", error |-> "AssertFailed", trace |-> <<>>,
              filled |-> 0, off |-> 0, len |-> 0]
        ELSE IF answer < 0
        THEN [result |-> "err", error |-> "IoError", trace |-> t_read,
              filled |-> 0, off |-> 0, len |-> 0]
        ELSE [result |-> "ok", error |-> "none", trace |-> t_read,
              filled |-> len, off |-> 0, len |-> len]

\* data a caller may write: n distinct bytes
DataSet == {[i \in 1..n |-> i] : n \in 0..MaxData}

\* what one write(2) on the device may answer: n >= 1 bytes taken, 0, EINTR, EIO
WriteAnswers(remaining) == (0..remaining) \cup {-1, -2}
EINTR == -1
EIO == -2

\* a single write(2) taken for the whole write: success after the first call
write_once(data, pos, answer) ==
    IF pos = Len(data)
    THEN [done |-> TRUE, result |-> "ok", error |-> "none", pos |-> pos, taken |-> <<>>]
    ELSE IF answer >= 0
    THEN [done |-> TRUE, result |-> "ok", error |-> "none", pos |-> pos + answer,
          taken |-> SubSeq(data, pos + 1, pos + answer)]
    ELSE [done |-> TRUE, result |-> "err", error |-> "IoError", pos |-> pos, taken |-> <<>>]

\* one iteration of Write::write_all over the rest of the data, data[pos+1..]
write(data, pos, answer) ==
    IF pos = Len(data)
    THEN [done |-> TRUE, result |-> "ok", error |-> "none", pos |-> pos, taken |-> <<>>]
    ELSE IF answer = 0
    THEN [done |-> TRUE, result |-> "err", error |-> "WriteZero", pos |-> pos, taken |-> <<>>]
    ELSE IF answer > 0
    THEN [done |-> FALSE, result |-> "running", error |-> "none", pos |-> pos + answer,
          taken |-> SubSeq(data, pos + 1, pos + answer)]
    ELSE IF answer = EINTR
    THEN [done |-> FALSE, result |-> "running", error |-> "none", pos |-> pos, taken |-> <<>>]
    ELSE [done |-> TRUE, result |-> "err", error |-> "IoError", pos |-> pos, taken |-> <<>>]

(* ---------------- destruction ---------------- *)
\* a destructor that closes the socket only and leaves the device descriptor
drop_sock_only(devCl, sockCl) ==
    [trace |-> <<Sys("close", "sock", <<>>, 0, 0, <<>>, 0)>>,
     file |-> "open", sock |-> "closed",
     devCloses |-> devCl, sockCloses |-> sockCl + 1]

\* a destructor that closes the socket, and closes it again with the fields
drop_sock_twice(devCl, sockCl) ==
    [trace |-> <<Sys("close", "sock", <<>>, 0, 0, <<>>, 0),
                 Sys("close", "sock", <<>>, 0, 0, <<>>, 0),
                 Sys("close", "dev", <<>>, 0, 0, <<>>, 0)>>,
     file |-> "closed", sock |-> "closed",
     devCloses |-> devCl + 1, sockCloses |-> sockCl + 2]

\* Drop for TunTap: close(self.sock); then the field `file` is dropped
drop(devCl, sockCl) ==
    [trace |-> <<Sys("close", "sock", <<>>, 0, 0, <<>>, 0),
                 Sys("close", "dev", <<>>, 0, 0, <<>>, 0)>>,
     file |-> "closed", sock |-> "closed",
     devCloses |-> devCl + 1, sockCloses |-> sockCl + 1]

(* ---------------- state ---------------- *)
VARIABLES
    phase,       \* "none": not constructed; "alive"; "failed": construction panicked; "dropped"
    file,        \* the device descriptor: "none", "open", "closed"
    sock,        \* the control socket descriptor: "none", "open", "closed"
    if_name,     \* TunTap.if_name, IFNAMSIZ bytes
    if_index,    \* TunTap.if_index
    devCloses,   \* number of close() calls made on the device descriptor
    sockCloses,  \* number of close() calls made on the control socket
    kflags,      \* the kernel's flags of the interface
    kaddr,       \* the address the kernel has installed
    hist,        \* the name construction was asked for, whether the kernel rewrites the
                 \* name on attach, and whether all four calls of construction succeed
    last,        \* the last operation: its inputs, result and system calls
    prev,        \* the operation before it: "up_ok" (an up() that returned), "panic", "other"
    wr           \* the write in progress

vars == <<phase, file, sock, if_name, if_index, devCloses, sockCloses,
          kflags, kaddr, hist, last, prev, wr>>

\* flags the kernel may give a new interface (2 is IFF_BROADCAST)
KFlagSet == {0, IFF_UP + IFF_RUNNING, 2 + IFF_RUNNING}

\* 16-byte addresses (::1, distinct bytes, all ones) and slices of other lengths
IpSet == { [i \in 1..16 |-> IF i = 16 THEN 1 ELSE 0],
           [i \in 1..16 |-> 16 * i - 1],
           <<>>, <<10, 0, 0, 1>>, [i \in 1..15 |-> i], [i \in 1..17 |-> i] }

Blank == [op |-> "none", result |-> "none", error |-> "none", trace |-> <<>>,
          name |-> <<>>, ip |-> <<>>, cap |-> 0, filled |-> 0, off |-> 0, len |-> 0,
          flagsRead |-> -1, data |-> <<>>, answer |-> 0, upOk |-> FALSE,
          typ |-> "none"]

NoWrite == [active |-> FALSE, data |-> <<>>, pos |-> 0, calls |-> 0, out |-> <<>>]

Summary ==
    IF last.op = "up" /\ last.result = "ok" THEN "up_ok"
    ELSE IF last.result = "panic" THEN "panic"
    ELSE "other"

Init ==
    /\ phase = "none"
    /\ file = "none"
    /\ sock = "none"
    /\ if_name = Zeros(IFNAMSIZ)
    /\ if_index = -1
    /\ devCloses = 0
    /\ sockCloses = 0
    /\ kflags = 0
    /\ kaddr = NoAddr
    /\ hist = [name |-> <<>>, rewrite |-> FALSE, allOk |-> FALSE]
    /\ last = Blank
    /\ prev = "other"
    /\ wr = NoWrite

Idle == phase = "alive" /\ ~wr.active

\* TunTap::create_named (TunTap::create is create_named with the empty name)
CreateNamedIn(NameSet) ==
    /\ phase = "none"
    /\ \E typ \in TunTapType, name \in NameSet, openOk, rewrite \in BOOLEAN,
          attachRes, indexRes \in IoctlAnswers, sockRes \in SocketAnswers,
          idx \in 1..MaxIndex, kfl \in KFlagSet :
        \E c \in {create_named(typ, name, openOk, attachRes, rewrite, sockRes, indexRes, idx)} :
            /\ phase' = IF c.ok THEN "alive" ELSE "failed"
            /\ file' = c.file
            /\ sock' = c.sock
            /\ if_name' = c.if_name
            /\ if_index' = c.if_index
            /\ devCloses' = devCloses + CountOn(c.trace, "close", "dev")
            /\ sockCloses' = sockCloses + CountOn(c.trace, "close", "sock")
            /\ kflags' = IF c.ok THEN kfl ELSE 0
            /\ hist' = [name |-> name, rewrite |-> rewrite,
                        allOk |-> (openOk /\ attachRes >= 0 /\ sockRes >= 0 /\ indexRes >= 0)]
            /\ last' = [Blank EXCEPT !.op = "create_named",
                                     !.result = IF c.ok THEN "ok" ELSE "panic",
                                     !.error = c.error, !.trace = c.trace, !.name = name,
                                     !.typ = typ]
    /\ prev' = Summary
    /\ UNCHANGED <<kaddr, wr>>

CreateNamed == CreateNamedIn(FewNames)
CreateAnyName == CreateNamedIn(Names)

GetName ==
    /\ Idle
    /\ LET g == get_name(if_name)
       IN  last' = [Blank EXCEPT !.op = "get_name",
                                 !.result = IF g.ok THEN "ok" ELSE "panic",
                                 !.error = IF g.ok THEN "none" ELSE "NotNulTerminated",
                                 !.name = g.name]
    /\ prev' = Summary
    /\ UNCHANGED <<phase, file, sock, if_name, if_index, devCloses, sockCloses,
                   kflags, kaddr, hist>>
    /\ wr' = NoWrite

Up ==
    /\ Idle
    /\ \E getRes, setRes \in IoctlAnswers :
        \E u \in {up(if_name, kflags, getRes, setRes)} :
            /\ kflags' = u.kflags
            /\ last' = [Blank EXCEPT !.op = "up",
                                     !.result = IF u.ok THEN "ok" ELSE "panic",
                                     !.error = u.error, !.trace = u.trace,
                                     !.flagsRead = u.flagsRead]
    /\ prev' = Summary
    /\ UNCHANGED <<phase, file, sock, if_name, if_index, devCloses, sockCloses,
                   kaddr, hist>>
    /\ wr' = NoWrite

AddAddress ==
    /\ Idle
    /\ \E ip \in IpSet, getRes, setRes, addrRes \in IoctlAnswers :
        \E a \in {add_address(if_name, if_index, ip, kflags, getRes, setRes, addrRes)} :
            /\ kflags' = a.kflags
            /\ kaddr' = IF a.ok THEN a.addr ELSE kaddr
            /\ last' = [Blank EXCEPT !.op = "add_address",
                                     !.result = IF a.ok THEN "ok" ELSE "panic",
                                     !.error = a.error, !.trace = a.trace,
                                     !.flagsRead = a.flagsRead, !.ip = ip,
                                     !.upOk = a.upOk]
    /\ prev' = Summary
    /\ UNCHANGED <<phase, file, sock, if_name, if_index, devCloses, sockCloses,
                   hist>>
    /\ wr' = NoWrite

Read ==
    /\ Idle
    /\ \E cap \in Capacities, answer \in ReadAnswers :
        \E r \in {read(cap, answer)} :
            last' = [Blank EXCEPT !.op = "read", !.result = r.result, !.answer = answer,
                                  !.error = r.error, !.trace = r.trace, !.cap = cap,
                                  !.filled = r.filled, !.off = r.off, !.len = r.len]
    /\ prev' = Summary
    /\ UNCHANGED <<phase, file, sock, if_name, if_index, devCloses, sockCloses,
                   kflags, kaddr, hist>>
    /\ wr' = NoWrite

\* TunTap::write is called: write_all starts on the data
Write ==
    /\ Idle
    /\ \E data \in DataSet :
        /\ wr' = [NoWrite EXCEPT !.active = TRUE, !.data = data]
        /\ last' = [Blank EXCEPT !.op = "write", !.result = "running", !.data = data]
    /\ prev' = Summary
    /\ UNCHANGED <<phase, file, sock, if_name, if_index, devCloses, sockCloses,
                   kflags, kaddr, hist>>

\* one iteration of write_all's loop, or its return
WriteStep ==
    /\ phase = "alive"
    /\ wr.active
    /\ \E answer \in WriteAnswers(Len(wr.data) - wr.pos) :
        /\ answer = EINTR => wr.calls < MaxWriteCalls
        /\ \E w \in {write(wr.data, wr.pos, answer)}, called \in {wr.pos # Len(wr.data)} :
               /\ wr' = [wr EXCEPT !.active = ~w.done, !.pos = w.pos,
                                   !.calls = IF called THEN @ + 1 ELSE @,
                                   !.out = @ \o w.taken]
               /\ last' = [last EXCEPT !.result = w.result, !.error = w.error,
                                       !.trace = IF called
                                                 THEN <<Sys("write", "dev", <<>>, 0, answer, <<>>, answer)>>
                                                 ELSE @]
    /\ UNCHANGED <<phase, file, sock, if_name, if_index, devCloses, sockCloses,
                   kflags, kaddr, hist, prev>>

\* the facade goes out of scope (also: by the unwinding of a panic)
Drop ==
    /\ Idle
    /\ LET d == drop(devCloses, sockCloses)
       IN  /\ file' = d.file
           /\ sock' = d.sock
           /\ devCloses' = d.devCloses
           /\ sockCloses' = d.sockCloses
           /\ last' = [Blank EXCEPT !.op = "drop", !.result = "ok", !.trace = d.trace]
    /\ phase' = "dropped"
    /\ prev' = Summary
    /\ UNCHANGED <<if_name, if_index, kflags, kaddr, hist>>
    /\ wr' = NoWrite

Next ==
    \/ CreateNamed
    \/ GetName
    \/ Up
    \/ AddAddress
    \/ Read
    \/ Write
    \/ WriteStep
    \/ Drop

Spec == Init /\ [][Next]_vars

\* construction with names of every length, the name query and destruction
NextNames ==
    \/ CreateAnyName
    \/ GetName
    \/ Up
    \/ Drop

SpecNames == Init /\ [][NextNames]_vars


(* ======================= properties ======================= *)

AddrCalls == {i \in 1..Len(last.trace) : last.trace[i].call = "SIOCSIFADDR"}
FlagErrors == {"FlagsQueryFailed", "FlagsSetFailed"}

\* C1: once the facade is destroyed, whatever calls came before (fatal ones
\* included), the device descriptor and the control socket are both closed
\* and each has been closed exactly once.
C1_ClosedExactlyOnce ==
    phase = "dropped" =>
        /\ file = "closed" /\ sock = "closed"
        /\ devCloses = 1 /\ sockCloses = 1

C1_Witness ==
    /\ phase = "dropped" /\ prev = "panic"
    /\ devCloses = 1 /\ sockCloses = 1

\* C2: a construction that fails builds no facade and leaves no descriptor
\* open: each descriptor it had opened is closed exactly once; when the index
\* lookup fails the socket is closed right after the lookup, before the
\* panic unwinds and releases the device.
C2_FailedConstructionReleases ==
    (last.op = "create_named" /\ last.result = "panic") =>
        /\ phase = "failed" /\ if_index = -1
        /\ file # "open" /\ sock # "open"
        /\ devCloses = (IF last.error \in {"AttachFailed", "SocketCreateFailed",
                                           "IndexResolveFailed"} THEN 1 ELSE 0)
        /\ sockCloses = (IF last.error = "IndexResolveFailed" THEN 1 ELSE 0)
        /\ last.error = "IndexResolveFailed" =>
              LET n == Len(last.trace)
              IN  /\ last.trace[n - 2].call = "SIOCGIFINDEX"
                  /\ last.trace[n - 1].call = "close" /\ last.trace[n - 1].fd = "sock"
                  /\ last.trace[n].call = "close" /\ last.trace[n].fd = "dev"

C2_Witness ==
    /\ last.op = "create_named" /\ last.error = "IndexResolveFailed"
    /\ phase = "failed" /\ sockCloses = 1 /\ devCloses = 1

\* C3: a name longer than IFNAMSIZ - 1 bytes makes create_named fail with the
\* name-too-long error before any system call: nothing is opened, no ioctl.
C3_NameTooLongBeforeOpen ==
    (last.op = "create_named" /\ Len(last.name) > IFNAMSIZ - 1) =>
        /\ last.result = "panic" /\ last.error = "NameTooLong"
        /\ last.trace = <<>>
        /\ phase = "failed" /\ file = "none" /\ sock = "none"
        /\ devCloses = 0 /\ sockCloses = 0

C3_Witness ==
    /\ last.op = "create_named" /\ Len(last.name) = IFNAMSIZ
    /\ last.error = "NameTooLong" /\ file = "none"

\* C4: the second of two successive up() calls, reading flags that show both
\* up and running, issues no SIOCSIFFLAGS and leaves the flags as they were.
C4_SecondUpIssuesNoSetFlags ==
    (/\ last.op = "up" /\ last.result = "ok" /\ prev = "up_ok"
     /\ BitAnd(last.flagsRead, IFF_UP) # 0
     /\ BitAnd(last.flagsRead, IFF_RUNNING) # 0) =>
        /\ ~Issued(last.trace, "SIOCSIFFLAGS")
        /\ kflags = last.flagsRead

\* C5 (as claimed): word k of the address passed to SIOCSIFADDR is
\* ip[2k]*256 + ip[2k+1] (0-based), the pair read as a big-endian value.
C5_WordsBigEndianValues ==
    last.op = "add_address" =>
        \A i \in AddrCalls : \A k \in 1..8 :
            last.trace[i].words[k] = last.ip[2 * k - 1] * 256 + last.ip[2 * k]

\* C5 (amended): word k of the address passed to SIOCSIFADDR is
\* ip[2k+1]*256 + ip[2k] (0-based), i.e. the native 16-bit value whose two
\* bytes in the memory of a little-endian host are ip[2k], ip[2k+1]; the
\* sixteen bytes of the request are then the input bytes in order, and a
\* successful call installs exactly these words.
C5_WordsLittleEndianPairs ==
    last.op = "add_address" =>
        /\ \A i \in AddrCalls :
              /\ Len(last.ip) = 16
              /\ \A k \in 1..8 :
                    last.trace[i].words[k] = last.ip[2 * k] * 256 + last.ip[2 * k - 1]
              /\ AddrBytes(last.trace[i].words, TRUE) = last.ip
        /\ last.result = "ok" =>
              /\ AddrCalls # {}
              /\ \A i \in AddrCalls : kaddr.words = last.trace[i].words

C5_Witness ==
    /\ last.op = "add_address" /\ last.result = "ok"
    /\ last.ip = [i \in 1..16 |-> IF i = 16 THEN 1 ELSE 0]
    /\ kaddr.words = <<0, 0, 0, 0, 0, 0, 0, 256>>

\* C6 (as claimed): a 4-byte address fails with the not-implemented error,
\* any length other than 4 and 16 fails with the invalid-length error, in
\* both cases without SIOCSIFADDR; only a 16-byte address reaches it.
C6_ClassifiedByLength ==
    last.op = "add_address" =>
        /\ Len(last.ip) = 4 =>
              /\ last.result = "panic" /\ last.error = "NotImplemented"
              /\ AddrCalls = {}
        /\ Len(last.ip) \notin {4, 16} =>
              /\ last.result = "panic" /\ last.error = "InvalidAddressLength"
              /\ AddrCalls = {}
        /\ AddrCalls # {} => Len(last.ip) = 16

\* C6 (amended): the classification happens after the bring-up step.  When
\* that step succeeded, a 4-byte address fails with the not-implemented
\* error, any length other than 4 and 16 with the invalid-length error, and
\* a 16-byte address reaches SIOCSIFADDR; when it failed, the call fails
\* with the error of the flags ioctl whatever the length.  A call with a
\* length other than 16 always fails and never issues SIOCSIFADDR.
C6_ClassifiedAfterBringUp ==
    last.op = "add_address" =>
        /\ Len(last.ip) = 4 =>
              /\ last.result = "panic" /\ AddrCalls = {}
              /\ last.upOk => last.error = "NotImplemented"
        /\ Len(last.ip) \notin {4, 16} =>
              /\ last.result = "panic" /\ AddrCalls = {}
              /\ last.upOk => last.error = "InvalidAddressLength"
        /\ ~last.upOk => last.result = "panic" /\ last.error \in FlagErrors
        /\ AddrCalls # {} <=> (Len(last.ip) = 16 /\ last.upOk)

C6_Witness ==
    /\ last.op = "add_address" /\ Len(last.ip) = 4 /\ last.upOk
    /\ last.error = "NotImplemented" /\ AddrCalls = {}

\* C7: a name of at most IFNAMSIZ - 1 bytes is accepted: if the four kernel
\* calls succeed the facade is built; if the kernel did not rewrite the name,
\* the stored buffer has IFNAMSIZ bytes with a NUL among them and get_name
\* returns exactly the name that was supplied.
C7_NameRoundTrip ==
    /\ (last.op = "create_named" /\ Len(last.name) <= IFNAMSIZ - 1 /\ hist.allOk) =>
          last.result = "ok" /\ phase = "alive"
    /\ (phase = "alive" /\ ~hist.rewrite) =>
          /\ Len(if_name) = IFNAMSIZ
          /\ \E i \in 1..IFNAMSIZ : if_name[i] = 0
    /\ (last.op = "get_name" /\ ~hist.rewrite) =>
          last.result = "ok" /\ last.name = hist.name

C7_Witness ==
    /\ last.op = "get_name" /\ last.result = "ok" /\ ~hist.rewrite
    /\ Len(hist.name) = IFNAMSIZ - 1 /\ last.name = hist.name

\* C8: a read with a buffer shorter than MTU_SIZE is rejected before the
\* device is read: no read system call, no frame returned.
C8_SmallBufferRejected ==
    (last.op = "read" /\ last.cap < MTU_SIZE) =>
        /\ last.result = "panic" /\ last.error = "AssertFailed"
        /\ last.trace = <<>>
        /\ last.filled = 0 /\ last.len = 0

C8_Witness ==
    /\ last.op = "read" /\ last.cap = MTU_SIZE - 1
    /\ last.result = "panic" /\ last.trace = <<>>

\* C9: a read with a buffer of at least MTU_SIZE bytes makes exactly one
\* read call on the device; what the call filled is returned as the prefix
\* of the buffer, 0 <= length <= capacity, short reads included; a failed
\* call is returned as an error and is not fatal.
C9_OneReadFilledPrefix ==
    (last.op = "read" /\ last.cap >= MTU_SIZE) =>
        /\ Len(last.trace) = 1
        /\ last.trace[1].call = "read" /\ last.trace[1].fd = "dev"
        /\ last.result # "panic"
        /\ last.answer >= 0 =>
              /\ last.result = "ok"
              /\ last.filled = Min(last.answer, last.cap)
              /\ last.off = 0 /\ last.len = last.filled
              /\ 0 <= last.len /\ last.len <= last.cap
        /\ last.answer < 0 => last.result = "err" /\ last.error = "IoError"

C9_Witness ==
    /\ last.op = "read" /\ last.cap = MTU_SIZE /\ last.answer = 14
    /\ last.result = "ok" /\ last.len = 14

\* C10: write reports success only when all of the data has reached the
\* device, going on after partial writes; an I/O error is returned to the
\* caller, is not fatal, and leaves both descriptors open and the facade
\* ready for the next operation.
C10_WriteAllOrError ==
    last.op = "write" =>
        /\ last.result \in {"running", "ok", "err"}
        /\ wr.active <=> last.result = "running"
        /\ wr.out = SubSeq(wr.data, 1, wr.pos)
        /\ last.result = "ok" => wr.pos = Len(wr.data) /\ wr.out = wr.data
        /\ (last.trace # <<>> /\ last.trace[1].index = EIO) =>
              last.result = "err" /\ last.error = "IoError"
        /\ (last.trace # <<>> /\ last.trace[1].index > 0 /\ wr.pos < Len(wr.data)) =>
              last.result = "running"
        /\ last.result = "err" =>
              /\ last.error \in {"IoError", "WriteZero"}
              /\ phase = "alive" /\ ~wr.active
              /\ file = "open" /\ sock = "open"
              /\ devCloses = 0 /\ sockCloses = 0

C10_Witness ==
    /\ last.op = "write" /\ last.result = "ok"
    /\ Len(wr.data) >= 2 /\ wr.calls >= 2 /\ wr.out = wr.data

\* a call of the trace, other than the one that creates the descriptor, is
\* made on a descriptor that was closed before the operation (f: device,
\* s: socket) or by an earlier call of the trace
UsesClosed(f, s, trace) ==
    \E i \in 1..Len(trace) :
        /\ trace[i].call \notin {"open", "socket"}
        /\ \/ (IF trace[i].fd = "dev" THEN f ELSE s) = "closed"
           \/ \E j \in 1..(i - 1) :
                 trace[j].call = "close" /\ trace[j].fd = trace[i].fd

\* C11: Closed is terminal: no step is taken by a facade that was destroyed,
\* and no operation makes an ioctl, read, write or close on a descriptor
\* that is already closed.
C11_NoCallOnClosedDescriptor ==
    [][phase # "dropped" /\ ~UsesClosed(file, sock, last'.trace)]_vars

C11_Witness ==
    /\ phase = "dropped" /\ last.op = "drop"
    /\ Len(last.trace) = 2
    /\ last.trace[1].call = "close" /\ last.trace[1].fd = "sock"
    /\ last.trace[2].call = "close" /\ last.trace[2].fd = "dev"
    /\ file = "closed" /\ sock = "closed"

\* the socket call and the ioctls of the configuration operations
ConfigCalls == {"socket", "TUNSETIFF", "SIOCGIFINDEX", "SIOCGIFFLAGS",
                "SIOCSIFFLAGS", "SIOCSIFADDR"}

\* C12 (as claimed): a configuration call that returns anything but zero
\* makes its operation fail fatally, and no call is made twice in an
\* operation.
C12_FatalOnNonZeroReturn ==
    \A i \in 1..Len(last.trace) :
        last.trace[i].call \in ConfigCalls =>
            /\ last.trace[i].ret # 0 => last.result = "panic"
            /\ Count(last.trace, last.trace[i].call) = 1

\* C12 (amended): a configuration call that returns a negative value makes
\* its operation fail fatally at once: only the closing of descriptors
\* follows it; a return of zero or more (the descriptor that socket returns)
\* is a success, after which the operation goes on; no call is made twice
\* in an operation.
C12_FatalOnNegativeReturn ==
    /\ \A i \in 1..Len(last.trace) :
          last.trace[i].call \in ConfigCalls =>
              /\ last.trace[i].ret < 0 =>
                    /\ last.result = "panic"
                    /\ \A j \in (i + 1)..Len(last.trace) : last.trace[j].call = "close"
              /\ (last.trace[i].call = "socket" /\ last.trace[i].ret >= 0) =>
                    /\ i < Len(last.trace)
                    /\ last.trace[i + 1].call = "SIOCGIFINDEX"
              /\ Count(last.trace, last.trace[i].call) = 1
    /\ (last.op = "up" /\ \A i \in 1..Len(last.trace) : last.trace[i].ret >= 0) =>
          last.result = "ok"

C12_Witness ==
    /\ last.op = "up" /\ last.result = "panic" /\ Len(last.trace) = 2
    /\ last.trace[1].call = "SIOCGIFFLAGS" /\ last.trace[1].ret = 0
    /\ last.trace[2].call = "SIOCSIFFLAGS" /\ last.trace[2].ret < 0

UpAndRunning(flags) == BitAnd(flags, IFF_UP) # 0 /\ BitAnd(flags, IFF_RUNNING) # 0

\* C13: when add_address issues SIOCSIFADDR, the bring-up step of the same
\* call is complete: SIOCGIFFLAGS was issued first and succeeded, and then
\* either the flags read showed up and running and nothing was set, or
\* SIOCSIFFLAGS was issued with the up and running bits and succeeded; the
\* address ioctl comes right after.  After a failed bring-up it is not issued.
C13_AddressAfterBringUp ==
    last.op = "add_address" =>
        /\ \A i \in AddrCalls :
              /\ last.upOk
              /\ last.trace[1].call = "SIOCGIFFLAGS" /\ last.trace[1].ret >= 0
              /\ \/ /\ i = 2
                    /\ UpAndRunning(last.flagsRead)
                 \/ /\ i = 3
                    /\ last.trace[2].call = "SIOCSIFFLAGS" /\ last.trace[2].ret >= 0
                    /\ UpAndRunning(last.trace[2].flags)
        /\ ~last.upOk => AddrCalls = {}
        /\ (\E i \in 1..Len(last.trace) :
               last.trace[i].call \in {"SIOCGIFFLAGS", "SIOCSIFFLAGS"}
               /\ last.trace[i].ret < 0) => AddrCalls = {}

C13_Witness ==
    /\ last.op = "add_address" /\ Len(last.trace) = 3
    /\ last.trace[1].call = "SIOCGIFFLAGS" /\ last.trace[1].ret >= 0
    /\ last.trace[2].call = "SIOCSIFFLAGS" /\ last.trace[2].ret >= 0
    /\ last.trace[3].call = "SIOCSIFADDR"

\* the steps of construction, in order
ConstructionOrder == <<"open", "TUNSETIFF", "socket", "SIOCGIFINDEX">>
NotClose(c) == c # "close"

\* C14: construction makes its calls in the order open, TUNSETIFF, socket,
\* SIOCGIFINDEX, each only after the one before succeeded (descriptors are
\* closed only after the last of them); SIOCGIFINDEX carries the name the
\* kernel left in the TUNSETIFF request, and that name is the one stored.
C14_ConstructionOrder ==
    last.op = "create_named" =>
        LET t == last.trace
            steps == SelectSeq(Calls(t), NotClose)
            n == Len(steps)
            answered == IF hist.rewrite THEN KernelName ELSE t[2].name
        IN  /\ n <= 4 /\ steps = SubSeq(ConstructionOrder, 1, n)
            /\ \A i \in 1..Len(t) : t[i].call = "close" <=> i > n
            /\ \A i \in 1..(n - 1) : t[i].ret >= 0
            /\ n >= 2 => \A k \in 1..Len(last.name) : t[2].name[k] = last.name[k]
            /\ n = 4 => t[4].name = answered
            /\ last.result = "ok" =>
                  /\ n = 4 /\ t[4].ret >= 0
                  /\ if_name = answered

C14_Witness ==
    /\ last.op = "create_named" /\ last.result = "ok" /\ hist.rewrite
    /\ Len(last.name) = IFNAMSIZ - 1
    /\ last.trace[4].call = "SIOCGIFINDEX" /\ last.trace[4].name = KernelName
    /\ last.trace[2].name # KernelName
    /\ if_name = KernelName

FlagCalls == {"SIOCGIFFLAGS", "SIOCSIFFLAGS"}

\* every flag ioctl of the trace carries the name, every address ioctl the index
UsesStored(trace, storedName, storedIndex) ==
    \A i \in 1..Len(trace) :
        /\ trace[i].call \in FlagCalls => trace[i].name = storedName
        /\ trace[i].call = "SIOCSIFADDR" => trace[i].index = storedIndex

\* C15: every operation on a constructed facade, whatever its outcome, leaves
\* if_name and if_index as construction set them, sends that name in every
\* flag ioctl and that index in every address ioctl.
C15_NameAndIndexFixed ==
    [][phase = "alive" =>
          /\ if_name' = if_name
          /\ if_index' = if_index
          /\ UsesStored(last'.trace, if_name, if_index)]_vars

\* a failed and a successful operation behind it, the kernel's flags rewritten
C15_Witness ==
    /\ phase = "alive" /\ last.op = "add_address" /\ last.result = "ok"
    /\ prev = "panic"
    /\ hist.rewrite /\ if_name = KernelName /\ if_index = MaxIndex
    /\ last.flagsRead # kflags
    /\ last.trace[1].name = KernelName /\ last.trace[2].name = KernelName
    /\ last.trace[3].call = "SIOCSIFADDR" /\ last.trace[3].index = MaxIndex

\* C16: TUNSETIFF is issued by construction only: once by a construction that
\* returns a facade (at most once by one that panics), on the device, with
\* the flag of the requested kind as the whole flags field; no operation on
\* the facade issues it.
C16_AttachOnceWithKindFlag ==
    LET n == Count(last.trace, "TUNSETIFF")
    IN  /\ last.op # "create_named" => n = 0
        /\ last.op = "create_named" =>
              /\ n <= 1
              /\ last.result = "ok" => n = 1
              /\ \A i \in 1..Len(last.trace) :
                    last.trace[i].call = "TUNSETIFF" =>
                        /\ last.trace[i].fd = "dev"
                        /\ last.typ = "Tun" => last.trace[i].flags = IFF_TUN
                        /\ last.typ = "Tap" => last.trace[i].flags = IFF_TAP

C16_Witness ==
    /\ phase = "alive" /\ last.op = "create_named" /\ last.typ = "Tap"
    /\ Count(last.trace, "TUNSETIFF") = 1
    /\ last.trace[2].call = "TUNSETIFF" /\ last.trace[2].flags = IFF_TAP

\* every bit of a is a bit of b
BitsWithin(a, b) == BitAnd(a, b) = a

\* C17: a SIOCSIFFLAGS request carries the flags the kernel answered to the
\* SIOCGIFFLAGS before it, with IFF_UP and IFF_RUNNING added: no bit that was
\* read is missing from what is written.
C17_SetFlagsKeepsBits ==
    [][\A i \in 1..Len(last'.trace) :
          last'.trace[i].call = "SIOCSIFFLAGS" =>
              /\ i > 1 /\ last'.trace[i - 1].call = "SIOCGIFFLAGS"
              /\ last'.flagsRead = kflags
              /\ last'.trace[i].flags = BitOr(kflags, BitOr(IFF_UP, IFF_RUNNING))
              /\ BitsWithin(kflags, last'.trace[i].flags)
              /\ UpAndRunning(last'.trace[i].flags)]_vars

\* flags with a bit besides the two, which the written flags still hold
C17_Witness ==
    /\ last.op = "up" /\ last.result = "ok"
    /\ last.flagsRead = 2 + IFF_RUNNING
    /\ last.trace[2].call = "SIOCSIFFLAGS"
    /\ last.trace[2].flags = 2 + IFF_RUNNING + IFF_UP
    /\ kflags = last.trace[2].flags

LengthErrors == {"NotImplemented", "InvalidAddressLength"}

\* C18: add_address with an address that is not 16 bytes long still begins
\* with SIOCGIFFLAGS; when it fails on the length, the bring-up before it has
\* succeeded, so the interface is up and running afterwards, and its flags
\* have changed if it was not so before.
C18_LengthCheckedAfterBringUp ==
    [][last'.op = "add_address" /\ Len(last'.ip) # 16 =>
          /\ Len(last'.trace) >= 1 /\ last'.trace[1].call = "SIOCGIFFLAGS"
          /\ last'.result = "panic" /\ ~Issued(last'.trace, "SIOCSIFADDR")
          /\ last'.error \in LengthErrors =>
                /\ last'.upOk
                /\ UpAndRunning(kflags')
                /\ ~UpAndRunning(kflags) => kflags' # kflags]_vars

\* a 4-byte address is refused, and the interface that was down is now up
C18_Witness ==
    /\ last.op = "add_address" /\ Len(last.ip) = 4
    /\ last.result = "panic" /\ last.error = "NotImplemented"
    /\ last.flagsRead = 0
    /\ Issued(last.trace, "SIOCSIFFLAGS")
    /\ kflags = IFF_UP + IFF_RUNNING

====
